---- MODULE Spec2Model ----
(***************************************************************************)
(* A model of micro.go (package micro, version 0.4): the route objects,    *)
(* the controller collections (route tables) with Mount and Flush, the     *)
(* matchers, the application's error handlers and boot flag, and the       *)
(* dispatch chain of ServeHTTP.                                            *)
(*                                                                         *)
(* Strings whose characters the code inspects (paths, prefixes, patterns)  *)
(* are sequences of one-character strings.  Objects the code shares by     *)
(* pointer live in two heaps: routes (a sequence, a route's identity is    *)
(* its index) and tables (a function over TableIds).  An operation that    *)
(* can panic is a function from a heap to a heap whose status field says   *)
(* how it ended; the heap it returns holds the writes made before the      *)
(* panic.                                                                  *)
(***************************************************************************)
EXTENDS Integers, Sequences, FiniteSets, TLC

VARIABLES
    routes,         \* heap of *Route: sequence of route records
    tables,         \* heap of *ControllerCollection: TableIds -> table record
    booted,         \* Micro.booted
    errorHandlers,  \* Micro.errorHandlers: code -> handler or Nil
    fault,          \* "none", or how the owner's configuration code died
    lastOp,         \* the operation the last step performed, and how it ended
    req,            \* the request being served by ServeHTTP, or Idle
    conc,           \* the requests served at the same time, by goroutine
    em,             \* EventEmitter.handlers: event -> slice of listeners
    emOp            \* the last call made on the emitter, and how it ended

vars == <<routes, tables, booted, errorHandlers, fault, lastOp, req, conc, em, emOp>>

Nil == "nil"

(***************************************************************************)
(* Bounds of the model.                                                    *)
(***************************************************************************)
MaxRoutes == 2

\* The collection embedded in the application (Micro.ControllerCollection).
Root == "app"

\* The collections of the model: the application's, and two the owner makes
\* with NewControllerCollection.
TableIds == {Root, "A", "B"}

(***************************************************************************)
(* Characters and strings.                                                 *)
(***************************************************************************)
Letters == {"a", "b", "c", "d", "i", "k", "n", "o", "p", "s", "v", "w", "x", "y"}
Digits == {"0", "1", "2", "3", "4", "5", "6", "7", "8", "9"}
WordChars == Letters \cup Digits \cup {"_"}

HasSuffix(s, c) == Len(s) > 0 /\ s[Len(s)] = c

\* The values handed to the API as handlers: two functions and one value
\* that is not callable.
Callables == {"h1", "h2"}
HandlerValues == Callables \cup {"notfunc"}

\* The verbs of the model; "get" is GET as a client may spell it.
Verbs == {"GET", "HEAD", "POST", "PUT", "DELETE"}
MethodNames == Verbs \cup {"*", "get"}

\* strings.ToUpper on the method names of the model
ToUpper(m) == IF m = "get" THEN "GET" ELSE m

AssertionKeys == {<<"i", "d">>, <<"d">>}
AttrKeys == {"k"}

(***************************************************************************)
(* Route                                                                   *)
(***************************************************************************)
\* The value NewRoute stores as handlerFunc: an empty slice, not a function.
EmptyHandlerSlice == "[]"

\* A route that has no compiled pattern yet (pattern == nil); a compiled
\* pattern is identified with its source text, which is never empty.
NilPattern == <<>>

NewRoute(path) ==
    [ methods     |-> <<>>,
      pattern     |-> NilPattern,
      path        |-> path,
      handlerFunc |-> EmptyHandlerSlice,
      params      |-> <<>>,
      frozen      |-> FALSE,
      assertions  |-> [k \in AssertionKeys |-> <<>>],
      attributes  |-> [k \in AttrKeys |-> Nil],
      name        |-> <<>>,
      passthrough |-> FALSE,
      matchers    |-> <<>> ]

IsCallable(value) == value \in Callables

SetName(r, name) == IF r.frozen THEN r ELSE [r EXCEPT !.name = name]

\* SetHandler after its MustBeCallable check, which the caller models.
SetHandler(r, handlerFunc) ==
    IF r.frozen THEN r ELSE [r EXCEPT !.handlerFunc = handlerFunc]

SetMethods(r, methods) ==
    IF r.frozen = TRUE THEN r ELSE [r EXCEPT !.methods = methods]

\* Assert for a pattern that compiles; the stored fragment is "(" pattern ")".
AssertRoute(r, parameterName, pattern) ==
    IF r.frozen THEN r
    ELSE [r EXCEPT !.assertions[parameterName] = <<"(">> \o pattern \o <<")">>]

SetAttribute(r, attr, value) == [r EXCEPT !.attributes[attr] = value]

(***************************************************************************)
(* Route.freeze: the scan of the path with Pattern, the replacement of     *)
(* every match, the anchors, the default name and the two matchers.        *)
(***************************************************************************)
\* DefaultParamPattern, "(\w+)"
DefaultParamPattern == <<"(", "\\", "w", "+", ")">>

RECURSIVE WordRunEnd(_, _)
\* The last index of the run of word characters that holds index j.
WordRunEnd(s, j) ==
    IF j < Len(s) /\ s[j + 1] \in WordChars THEN WordRunEnd(s, j + 1) ELSE j

RECURSIVE FindAllSubmatch(_, _)
\* regexp.MustCompile(Pattern).FindAllStringSubmatch(s, -1), scanning from
\* index i.  Pattern is (?:\:)(\w+)(\?)?|(\(.+\)?): a colon, a word and an
\* optional "?"; or an opening parenthesis and, .+ being greedy and the
\* closing parenthesis optional, everything up to the end of the string.
FindAllSubmatch(s, i) ==
    IF i > Len(s) THEN <<>>
    ELSE IF s[i] = ":" /\ i < Len(s) /\ s[i + 1] \in WordChars THEN
        LET j == WordRunEnd(s, i + 1)
            e == IF j < Len(s) /\ s[j + 1] = "?" THEN j + 1 ELSE j
        IN  <<[first |-> i, last |-> e, text |-> SubSeq(s, i, e),
               name |-> SubSeq(s, i + 1, j)]>> \o FindAllSubmatch(s, e + 1)
    ELSE IF s[i] = "(" /\ i < Len(s) THEN
        <<[first |-> i, last |-> Len(s), text |-> SubSeq(s, i, Len(s)),
           name |-> <<>>]>>
    ELSE FindAllSubmatch(s, i + 1)

DigitChars == <<"0", "1", "2", "3", "4", "5", "6", "7", "8", "9">>

RECURSIVE Itoa(_)
\* fmt.Sprintf("%d", n) for n >= 0
Itoa(n) ==
    IF n < 10 THEN <<DigitChars[n + 1]>>
    ELSE Itoa(n \div 10) \o <<DigitChars[(n % 10) + 1]>>

\* The parameter names freeze appends for the matches ms: the name of a
\* :param, the position of the match for a group.
ParamNames(ms) ==
    [k \in 1..Len(ms) |->
        IF ms[k].text[1] = ":" THEN ms[k].name ELSE Itoa(k - 1)]

RECURSIVE FirstWordFrom(_, _)
\* regexp.MustCompile("\\w+").FindAllString(text, -1)[0], or <<>> if the
\* text holds no word character.
FirstWordFrom(text, i) ==
    IF i > Len(text) THEN <<>>
    ELSE IF text[i] \in WordChars THEN SubSeq(text, i, WordRunEnd(text, i))
    ELSE FirstWordFrom(text, i + 1)

\* r.assertions[key]: "" for a key the map does not hold.
Assertion(r, key) ==
    IF key \in DOMAIN r.assertions THEN r.assertions[key] ELSE <<>>

\* The function freeze hands to ReplaceAllStringFunc.
ReplaceMatch(r, match) ==
    LET word == FirstWordFrom(match, 1)
    IN  IF word # <<>> /\ Assertion(r, word) # <<>> THEN
            IF HasSuffix(match, "?")
            THEN <<"?">> \o Assertion(r, word) \o <<"?">>
            ELSE Assertion(r, word)
        ELSE IF match[1] = "(" /\ match[Len(match)] = ")" THEN match
        ELSE IF HasSuffix(match, "?")
            THEN <<"?">> \o DefaultParamPattern \o <<"?">>
        ELSE DefaultParamPattern

RECURSIVE ReplaceAll(_, _, _, _)
\* ReplaceAllStringFunc: the text of s from index i on, the matches from
\* ms[k] on replaced.
ReplaceAll(r, s, ms, k) ==
    LET from == IF k = 1 THEN 1 ELSE ms[k - 1].last + 1
    IN  IF k > Len(ms) THEN SubSeq(s, from, Len(s))
        ELSE SubSeq(s, from, ms[k].first - 1) \o ReplaceMatch(r, ms[k].text)
                 \o ReplaceAll(r, s, ms, k + 1)

\* "^" and "$" and the optional trailing slash.
Anchor(stringPattern, passthrough) ==
    LET open == IF HasSuffix(stringPattern, "/")
                THEN <<"^">> \o stringPattern \o <<"?">>
                ELSE <<"^">> \o stringPattern \o <<"/", "?">>
    IN  IF ~passthrough THEN open \o <<"$">> ELSE open

RECURSIVE JoinSpace(_)
JoinSpace(ms) ==
    IF ms = <<>> THEN <<>>
    ELSE IF Len(ms) = 1 THEN ms
    ELSE <<ms[1], " ">> \o JoinSpace(Tail(ms))

\* A token of a name is a character or a whole method name; "*" and the
\* punctuation are the tokens \W matches.
IsWordToken(t) == t \in WordChars \/ t \in (MethodNames \ {"*"})

RECURSIVE ReplaceNonWord(_, _)
\* regexp.MustCompile("\\W+").ReplaceAllString(s, "_"); inRun says that the
\* token before s belongs to a run already replaced.
ReplaceNonWord(s, inRun) ==
    IF s = <<>> THEN <<>>
    ELSE IF IsWordToken(s[1]) THEN <<s[1]>> \o ReplaceNonWord(Tail(s), FALSE)
    ELSE IF inRun THEN ReplaceNonWord(Tail(s), TRUE)
    ELSE <<"_">> \o ReplaceNonWord(Tail(s), TRUE)

\* path + "_" + fmt.Sprint(methods), sanitized
DefaultName(path, methods) ==
    ReplaceNonWord(path \o <<"_", "[">> \o JoinSpace(methods) \o <<"]">>, FALSE)

NewPatternMatcher(pattern) == [kind |-> "pattern", pattern |-> pattern, methods |-> <<>>]
NewMethodMatcher(verbs) == [kind |-> "method", pattern |-> NilPattern, methods |-> verbs]

freeze(r) ==
    IF r.frozen THEN r
    ELSE
        LET ms == FindAllSubmatch(r.path, 1)
            pattern == Anchor(ReplaceAll(r, r.path, ms, 1), r.passthrough)
        IN  [r EXCEPT
                !.params = r.params \o ParamNames(ms),
                !.pattern = pattern,
                !.name = IF r.name = <<>> THEN DefaultName(r.path, r.methods)
                         ELSE r.name,
                !.matchers = <<NewPatternMatcher(pattern),
                               NewMethodMatcher(r.methods)>>,
                !.frozen = TRUE]

(***************************************************************************)
(* ControllerCollection                                                    *)
(***************************************************************************)
NewControllerCollection ==
    [ Routes    |-> <<>>,
      prefix    |-> <<>>,
      frozen    |-> FALSE,
      Children  |-> <<>>,
      hasParent |-> FALSE ]

\* A heap and the way the operation that produced it ended: "ok", "panic"
\* (a Go panic) or "overflow" (unbounded recursion, fatal in Go).  ret is
\* the route an operation returns.
Heap(tb, rt) == [tables |-> tb, routes |-> rt, status |-> "ok", ret |-> 0]

\* mustNotBeFrozen passes
mustNotBeFrozen(rc) == ~rc.frozen

\* setPrefix after its mustNotBeFrozen check
setPrefix(rc, prefix) ==
    LET p1 == IF prefix # <<>> /\ prefix[1] # "/" THEN <<"/">> \o prefix
              ELSE prefix
        p2 == IF prefix # <<>> /\ HasSuffix(p1, "/") THEN p1 \o <<"?">>
              ELSE p1
    IN  [rc EXCEPT !.prefix = p2]

AddRoute(h, t, r) ==
    [h EXCEPT !.tables[t].Routes = Append(@, r)]

All(h, t, path, handlerFunction) ==
    IF ~mustNotBeFrozen(h.tables[t]) THEN [h EXCEPT !.status = "panic"]
    ELSE IF ~IsCallable(handlerFunction) THEN [h EXCEPT !.status = "panic"]
    ELSE LET id == Len(h.routes) + 1
         IN  [h EXCEPT
                !.routes = Append(@, SetHandler(NewRoute(path), handlerFunction)),
                !.tables[t].Routes = Append(@, id),
                !.ret = id]

\* All followed by SetMethods on the route All returned
AllWithMethods(h, t, path, handlerFunction, methods) ==
    LET a == All(h, t, path, handlerFunction)
    IN  IF a.status # "ok" THEN a
        ELSE [a EXCEPT !.routes[a.ret] = SetMethods(@, methods)]

Get(h, t, path, handlerFunction) ==
    AllWithMethods(h, t, path, handlerFunction, <<"GET", "HEAD">>)

Post(h, t, path, handlerFunction) ==
    AllWithMethods(h, t, path, handlerFunction, <<"POST">>)

Put(h, t, path, handlerFunction) ==
    AllWithMethods(h, t, path, handlerFunction, <<"PUT">>)

Delete(h, t, path, handlerFunction) ==
    AllWithMethods(h, t, path, handlerFunction, <<"DELETE">>)

Use(h, t, path, handlerFunction) ==
    LET a == All(h, t, path, handlerFunction)
    IN  IF a.status # "ok" THEN a
        ELSE [a EXCEPT !.routes[a.ret].passthrough = TRUE]

\* Mount without the hasParent test
Mount_NoParentTest(h, t, path, c) ==
    LET h1 == [h EXCEPT !.tables[t].Children = Append(@, c)]
    IN  IF ~mustNotBeFrozen(h1.tables[c]) THEN [h1 EXCEPT !.status = "panic"]
        ELSE [h1 EXCEPT !.tables[c] =
                            [setPrefix(@, path) EXCEPT !.hasParent = TRUE]]

Mount(h, t, path, c) ==
    IF ~h.tables[c].hasParent THEN
        LET h1 == [h EXCEPT !.tables[t].Children = Append(@, c)]
        IN  IF ~mustNotBeFrozen(h1.tables[c]) THEN [h1 EXCEPT !.status = "panic"]
            ELSE [h1 EXCEPT !.tables[c] =
                                [setPrefix(@, path) EXCEPT !.hasParent = TRUE]]
    ELSE h

RECURSIVE FlushRoutes(_, _, _, _)
\* The first loop of Flush over rs, the value of rc.Routes when the loop
\* starts: the prefix is put before the path, then the route is frozen.
FlushRoutes(h, prefix, rs, i) ==
    IF i > Len(rs) THEN h
    ELSE FlushRoutes(
            [h EXCEPT !.routes[rs[i]] = freeze([@ EXCEPT !.path = prefix \o @])],
            prefix, rs, i + 1)

\* The depth of nested Flush calls beyond which the recursion never ends.
\* A table is frozen only when its Flush returns, so a second activation of
\* a table finds its first child either frozen (setPrefix panics) or still
\* being flushed (the cycle repeats for ever): after two rounds over all the
\* tables no panic can come any more.
FlushDepthLimit == 2 * Cardinality(TableIds)

\* MergeChild putting the child's routes before the table's own
MergeChild_ChildFirst(h, t, c) ==
    [h EXCEPT !.tables[t].Routes = h.tables[c].Routes \o @,
              !.tables[c].Routes = <<>>]

\* The inner loop of Flush: the routes of the flushed child c are appended
\* to the routes of t, and the child's list is emptied.
MergeChild(h, t, c) ==
    [h EXCEPT !.tables[t].Routes = @ \o h.tables[c].Routes,
              !.tables[c].Routes = <<>>]

RECURSIVE Flush(_, _, _)
RECURSIVE FlushChildren(_, _, _, _, _)
\* The second loop of Flush over cs, the value of rc.Children.
FlushChildren(h, t, cs, i, depth) ==
    IF i > Len(cs) THEN h
    ELSE
        LET c == cs[i]
        IN  IF ~mustNotBeFrozen(h.tables[c]) THEN [h EXCEPT !.status = "panic"]
            ELSE
                LET h1 == [h EXCEPT !.tables[c] =
                              setPrefix(@, h.tables[t].prefix \o h.tables[c].prefix)]
                    h2 == Flush(h1, c, depth + 1)
                IN  IF h2.status # "ok" THEN h2
                    ELSE FlushChildren(MergeChild(h2, t, c), t, cs, i + 1, depth)

Flush(h, t, depth) ==
    IF h.tables[t].frozen = TRUE THEN h
    ELSE IF depth > FlushDepthLimit THEN [h EXCEPT !.status = "overflow"]
    ELSE
        LET h1 == FlushRoutes(h, h.tables[t].prefix, h.tables[t].Routes, 1)
            h2 == IF Len(h1.tables[t].Children) > 0
                  THEN FlushChildren(h1, t, h1.tables[t].Children, 1, depth)
                  ELSE h1
        IN  IF h2.status # "ok" THEN h2
            ELSE [h2 EXCEPT !.tables[t].frozen = TRUE]

(***************************************************************************)
(* Micro: Boot and Error                                                   *)
(***************************************************************************)
\* The status codes of the model; 399 is the one Error must refuse.
Codes == {399, 400, 404, 500}

\* An application: the heap, the boot flag and the error handlers.
App(tb, rt, b, eh) ==
    [tables |-> tb, routes |-> rt, status |-> "ok", ret |-> 0,
     booted |-> b, errorHandlers |-> eh]

Boot(a) ==
    IF ~a.booted THEN
        LET f == Flush(a, Root, 1)
        IN  IF f.status # "ok" THEN f ELSE [f EXCEPT !.booted = TRUE]
    ELSE a

Error_NoBootTest(a, errorCode, handlerFunc) ==
    IF errorCode < 400 THEN [a EXCEPT !.status = "panic"]
    ELSE [a EXCEPT !.errorHandlers[errorCode] = handlerFunc]

Error(a, errorCode, handlerFunc) ==
    IF a.booted THEN a
    ELSE IF errorCode < 400 THEN [a EXCEPT !.status = "panic"]
    ELSE [a EXCEPT !.errorHandlers[errorCode] = handlerFunc]

(***************************************************************************)
(* regexp: the matching of a compiled pattern.  The syntax covered is the  *)
(* one freeze produces from the paths and assertions of the model: literal *)
(* characters, \w and \d, ".", capturing groups, the postfix operators     *)
(* "?", "+" and "*" (greedy), "^" and "$".  A match is searched in Go's    *)
(* order (leftmost, and first in the order of a backtracking search), so   *)
(* the first result is the one Go reports.                                 *)
(***************************************************************************)
RECURSIVE CloseParen(_, _, _)
\* The index of the ")" that closes the group opened before index i, depth
\* groups being open at i.
CloseParen(p, i, depth) ==
    IF i > Len(p) THEN Len(p) + 1
    ELSE IF p[i] = "\\" THEN CloseParen(p, i + 2, depth)
    ELSE IF p[i] = "(" THEN CloseParen(p, i + 1, depth + 1)
    ELSE IF p[i] = ")" THEN
        IF depth = 1 THEN i ELSE CloseParen(p, i + 1, depth - 1)
    ELSE CloseParen(p, i + 1, depth)

\* The last index of the atom that starts at index i
AtomEnd(p, i) ==
    IF p[i] = "\\" THEN i + 1
    ELSE IF p[i] = "(" THEN CloseParen(p, i + 1, 1)
    ELSE i

RECURSIVE GroupsBefore(_, _)
\* The number of groups opened in p[1..i]
GroupsBefore(p, i) ==
    IF i < 1 THEN 0
    ELSE IF p[i] = "(" /\ (i = 1 \/ p[i - 1] # "\\")
        THEN 1 + GroupsBefore(p, i - 1)
    ELSE GroupsBefore(p, i - 1)

NumSubexp(p) == GroupsBefore(p, Len(p))

\* The parentheses of a pattern are balanced: what the model asks of a
\* pattern for regexp.MustCompile not to panic.
RegexpCompiles(p) ==
    /\ \A i \in 1..Len(p) :
           (p[i] = "(" /\ (i = 1 \/ p[i - 1] # "\\")) => CloseParen(p, i + 1, 1) <= Len(p)
    /\ CloseParen(p, 1, 1) > Len(p)

RECURSIVE MatchSeq(_, _, _, _, _, _)
RECURSIVE MatchAtom(_, _, _, _, _, _)
RECURSIVE MatchRest(_, _, _, _, _, _)
RECURSIVE MatchMany(_, _, _, _, _, _, _, _)

\* The ways p[i..e] matches s from index j on, caps being the groups
\* captured so far: a sequence of [pos, caps], in the order of the search.
MatchSeq(p, i, e, s, j, caps) ==
    IF i > e THEN <<[pos |-> j, caps |-> caps]>>
    ELSE
        LET ae == AtomEnd(p, i)
            q  == IF ae < e /\ p[ae + 1] \in {"?", "+", "*"} THEN p[ae + 1] ELSE ""
            nx == IF q = "" THEN ae + 1 ELSE ae + 2
            once == MatchAtom(p, i, ae, s, j, caps)
        IN  IF q = "" THEN MatchRest(p, nx, e, s, once, 1)
            ELSE IF q = "?" THEN
                MatchRest(p, nx, e, s, once, 1) \o MatchSeq(p, nx, e, s, j, caps)
            ELSE IF q = "+" THEN MatchMany(p, i, ae, nx, e, s, once, 1)
            ELSE MatchMany(p, i, ae, nx, e, s, once, 1)
                    \o MatchSeq(p, nx, e, s, j, caps)

\* p[nx..e] matched after each of the results rs[k..]
MatchRest(p, nx, e, s, rs, k) ==
    IF k > Len(rs) THEN <<>>
    ELSE MatchSeq(p, nx, e, s, rs[k].pos, rs[k].caps)
            \o MatchRest(p, nx, e, s, rs, k + 1)

\* After each of the results rs[k..] of the atom p[i..ae]: the atom once
\* more (greedy) before the rest p[nx..e].
MatchMany(p, i, ae, nx, e, s, rs, k) ==
    IF k > Len(rs) THEN <<>>
    ELSE
        LET more == MatchAtom(p, i, ae, s, rs[k].pos, rs[k].caps)
            grown == SelectSeq(more, LAMBDA m : m.pos > rs[k].pos)
        IN  MatchMany(p, i, ae, nx, e, s, grown, 1)
                \o MatchSeq(p, nx, e, s, rs[k].pos, rs[k].caps)
                \o MatchMany(p, i, ae, nx, e, s, rs, k + 1)

MatchAtom(p, i, ae, s, j, caps) ==
    LET one(ok) == IF j <= Len(s) /\ ok THEN <<[pos |-> j + 1, caps |-> caps]>>
                   ELSE <<>>
    IN  IF p[i] = "^" THEN
            IF j = 1 THEN <<[pos |-> j, caps |-> caps]>> ELSE <<>>
        ELSE IF p[i] = "$" THEN
            IF j = Len(s) + 1 THEN <<[pos |-> j, caps |-> caps]>> ELSE <<>>
        ELSE IF p[i] = "." THEN one(TRUE)
        ELSE IF p[i] = "\\" THEN
            IF p[ae] = "w" THEN one(j <= Len(s) /\ s[j] \in WordChars)
            ELSE IF p[ae] = "d" THEN one(j <= Len(s) /\ s[j] \in Digits)
            ELSE one(j <= Len(s) /\ s[j] = p[ae])
        ELSE IF p[i] = "(" THEN
            LET g == GroupsBefore(p, i)
                inner == MatchSeq(p, i + 1, ae - 1, s, j, caps)
            IN  [k \in 1..Len(inner) |->
                    [pos |-> inner[k].pos,
                     caps |-> [inner[k].caps EXCEPT
                                  ![g] = SubSeq(s, j, inner[k].pos - 1)]]]
        ELSE one(j <= Len(s) /\ s[j] = p[i])

RECURSIVE FindFrom(_, _, _)
\* The first match of pattern p in s that starts at index j or later
FindFrom(p, s, j) ==
    IF j > Len(s) + 1 THEN <<>>
    ELSE
        LET rs == MatchSeq(p, 1, Len(p), s, j, [g \in 1..NumSubexp(p) |-> <<>>])
        IN  IF rs # <<>> THEN <<rs[1]>> ELSE FindFrom(p, s, j + 1)

\* Regexp.MatchString
MatchString(p, s) == FindFrom(p, s, 1) # <<>>

\* Regexp.FindStringSubmatch(s)[1:]: the text of every group of the first
\* match, <<>> if there is no match.
FindStringSubmatch(p, s) ==
    LET f == FindFrom(p, s, 1) IN IF f = <<>> THEN <<>> ELSE f[1].caps

(***************************************************************************)
(* Matchers and RequestMatcher                                             *)
(***************************************************************************)
\* MethodMatcher.Match
MethodMatch(methods, requestMethod) ==
    IF Len(methods) = 0 THEN TRUE
    ELSE \E i \in 1..Len(methods) : ToUpper(methods[i]) = ToUpper(requestMethod)

\* PatternMatcher.Match
PatternMatch(pattern, requestPath) == MatchString(pattern, requestPath)

\* Matcher.Match, for the two kinds of matcher
MatcherMatch(matcher, request) ==
    IF matcher.kind = "method" THEN MethodMatch(matcher.methods, request.method)
    ELSE PatternMatch(matcher.pattern, request.path)

RECURSIVE MatchersAccept(_, _, _)
\* The inner loop of MatchAll from the matcher k on: it breaks at the first
\* matcher that does not match
MatchersAccept(ms, request, k) ==
    IF k > Len(ms) THEN TRUE
    ELSE IF ~MatcherMatch(ms[k], request) THEN FALSE
    ELSE MatchersAccept(ms, request, k + 1)

\* The value of match after the inner loop of MatchAll
RouteMatches(r, request) == MatchersAccept(r.matchers, request, 1)

RECURSIVE MatchRoutes(_, _, _, _, _)
\* The outer loop of MatchAll over rs from the index i on
MatchRoutes(rs, rt, request, i, matches) ==
    IF i > Len(rs) THEN matches
    ELSE MatchRoutes(rs, rt, request, i + 1,
            IF RouteMatches(rt[rs[i]], request) THEN Append(matches, rs[i])
            ELSE matches)

\* RequestMatcher.MatchAll on the table t
MatchAll(tb, rt, t, request) ==
    IF Len(tb[t].Routes) > 0 THEN MatchRoutes(tb[t].Routes, rt, request, 1, <<>>)
    ELSE <<>>

(***************************************************************************)
(* The owner's configuration calls, as steps.  A panic in the owner's      *)
(* configuration code is not recovered and ends the program (fault); the   *)
(* heap keeps what the call wrote before it panicked.                      *)
(***************************************************************************)
Idle ==
    [phase |-> "idle", method |-> "", path |-> <<>>, matched |-> <<>>,
     matches |-> <<>>, code |-> 0, writtenLength |-> 0, rawCode |-> 0,
     stack |-> <<>>, events |-> <<>>, vars |-> <<>>, nextSet |-> FALSE,
     steps |-> 0, escaped |-> FALSE]

\* changed: the step wrote to the heap or to the application
Op(name, status, changed) ==
    [op |-> name, status |-> status, changed |-> changed]

\* The goroutines that serve requests at the same time
Goroutines == {1, 2}

\* No request has arrived: before is the heap when the first one arrives
NoRequests ==
    [g |-> [p \in Goroutines |-> [pc |-> "idle", stack |-> <<>>, matches |-> <<>>]],
     before |-> <<>>, actor |-> 0]

Configuring == fault = "none" /\ req.phase = "idle" /\ conc = NoRequests

CurrentHeap == Heap(tables, routes)

CommitHeap(h0, name) ==
    \E h \in {h0} :
        /\ tables' = h.tables
        /\ routes' = h.routes
        /\ fault' = IF h.status = "ok" THEN "none" ELSE h.status
        /\ lastOp' = Op(name, h.status, h.tables # tables \/ h.routes # routes)
        /\ UNCHANGED <<booted, errorHandlers, req, conc, em, emOp>>

RECURSIVE SumLen(_, _)
SumLen(tb, ts) ==
    IF ts = {} THEN 0
    ELSE LET t == CHOOSE x \in ts : TRUE
         IN  Len(tb[t].Routes) + SumLen(tb, ts \ {t})

\* The number of entries of all the Routes lists
Listed == SumLen(tables, TableIds)

\* The same for a step of the application
CommitApp(a0, name) ==
    \E a \in {a0} :
        /\ tables' = a.tables
        /\ routes' = a.routes
        /\ booted' = a.booted
        /\ errorHandlers' = a.errorHandlers
        /\ fault' = IF a.status = "ok" THEN "none" ELSE a.status
        /\ lastOp' = Op(name, a.status,
                        \/ a.tables # tables \/ a.routes # routes
                        \/ a.booted # booted \/ a.errorHandlers # errorHandlers)
        /\ UNCHANGED <<req, conc, em, emOp>>

\* A table can take one more route of the model
HasRoom(t) == (Len(routes) < MaxRoutes /\ Listed < MaxRoutes) \/ tables[t].frozen

DoNewRoute(path) ==
    /\ Configuring
    /\ Len(routes) < MaxRoutes
    /\ CommitHeap([CurrentHeap EXCEPT !.routes = Append(@, NewRoute(path))],
                  "NewRoute")

DoAddRoute(t, r) ==
    /\ Configuring
    /\ Listed < MaxRoutes
    /\ CommitHeap(AddRoute(CurrentHeap, t, r), "AddRoute")

DoAll(t, path, hf) ==
    /\ Configuring
    /\ CommitHeap(All(CurrentHeap, t, path, hf), "All")

DoGet(t, path, hf) ==
    /\ Configuring
    /\ LET h == Get(CurrentHeap, t, path, hf) IN CommitHeap(h, "Get")

DoPost(t, path, hf) ==
    /\ Configuring
    /\ LET h == Post(CurrentHeap, t, path, hf) IN CommitHeap(h, "Post")

DoPut(t, path, hf) ==
    /\ Configuring
    /\ LET h == Put(CurrentHeap, t, path, hf) IN CommitHeap(h, "Put")

DoDelete(t, path, hf) ==
    /\ Configuring
    /\ LET h == Delete(CurrentHeap, t, path, hf)
       IN  CommitHeap(h, "Delete")

DoUse(t, path, hf) ==
    /\ Configuring
    /\ LET h == Use(CurrentHeap, t, path, hf) IN CommitHeap(h, "Use")

DoMount(t, path, c) ==
    /\ Configuring
    /\ CommitHeap(Mount(CurrentHeap, t, path, c), "Mount")

DoFlush(t) ==
    /\ Configuring
    /\ CommitHeap(Flush(CurrentHeap, t, 1), "Flush")

\* The calls of the mutators of the route r
CommitRoute(r, route, name) ==
    CommitHeap([CurrentHeap EXCEPT !.routes[r] = route], name)

CommitPanic(name) == CommitHeap([CurrentHeap EXCEPT !.status = "panic"], name)

DoSetName(r, name) ==
    /\ Configuring
    /\ CommitRoute(r, SetName(routes[r], name), "SetName")

DoSetMethods(r, methods) ==
    /\ Configuring
    /\ CommitRoute(r, SetMethods(routes[r], methods), "SetMethods")

\* SetHandler: MustBeCallable is reached only by a route that is not frozen
DoSetHandler(r, hf) ==
    /\ Configuring
    /\ IF ~routes[r].frozen /\ ~IsCallable(hf) THEN CommitPanic("SetHandler")
       ELSE CommitRoute(r, SetHandler(routes[r], hf), "SetHandler")

\* Assert: regexp.MustCompile is reached only by a route that is not frozen
DoAssert(r, parameterName, pattern) ==
    /\ Configuring
    /\ IF ~routes[r].frozen /\ ~RegexpCompiles(<<"(">> \o pattern \o <<")">>)
       THEN CommitPanic("Assert")
       ELSE CommitRoute(r, AssertRoute(routes[r], parameterName, pattern), "Assert")

DoSetAttribute(r, attr, value) ==
    /\ Configuring
    /\ CommitRoute(r, SetAttribute(routes[r], attr, value), "SetAttribute")

(***************************************************************************)
(* ServeHTTP and the dispatch chain.                                       *)
(*                                                                         *)
(* req is the state of one call of ServeHTTP: the remaining matches, the   *)
(* response writer's code and writtenLength, the context's RequestVars,    *)
(* and the stack of the handlers that are running (a handler that calls    *)
(* next is below the handler next invokes).  events is the history of the  *)
(* call.  A handler is the owner's code: a running route handler may set   *)
(* a status, write, call next, return or panic, any number of times; a     *)
(* handler registered with Error writes its response and returns, or       *)
(* panics, and does not call next.  The two default handlers are the       *)
(* code of micro.go and run within one step.                               *)
(***************************************************************************)
MaxSteps == 4
MaxServeRoutes == 3

NotFoundErrorHandler == "NotFoundErrorHandler"
InternalServerErrorHandler == "InternalServerErrorHandler"

\* What the injector can call: the owner's functions and the two defaults
Invocable(h) ==
    IsCallable(h) \/ h \in {NotFoundErrorHandler, InternalServerErrorHandler, "e404", "e500"}

\* len(http.StatusText(code)), for the codes of the model
StatusTextLen(code) ==
    IF code = 500 THEN 21 ELSE IF code = 404 THEN 9 ELSE IF code = 400 THEN 11 ELSE 0

\* F of the value of v, v being evaluated once
With(v, F(_)) == CHOOSE y \in {F(x) : x \in {v}} : TRUE

Event(ev, kind, id, h, by, code, written) ==
    [ev |-> ev, kind |-> kind, id |-> id, h |-> h, by |-> by, code |-> code,
     written |-> written]

Log(q, ev, kind, id, h, by) ==
    [q EXCEPT !.events = Append(@, Event(ev, kind, id, h, by, q.code, q.writtenLength))]

\* ResponseWriterWithCode.WriteHeader
WriteHeader(q, code) == [q EXCEPT !.code = code]

\* ResponseWriterWithCode.Write of n bytes
Write(q, n) == [q EXCEPT !.writtenLength = @ + n]

\* http.Error(rw, http.StatusText(code), code): the header, then the text
\* and a line feed
HttpError(q, code) ==
    Log(Write(WriteHeader(q, code), StatusTextLen(code) + 1), "fallback", "", code, "", 0)

\* The running handler: the index in events of its invocation, 0 for
\* ServeHTTP itself
Running(q) == IF q.stack = <<>> THEN 0 ELSE q.stack[Len(q.stack)].by

\* The call returns to ServeHTTP when no handler is running any more
Settle(q) == IF q.stack = <<>> THEN [q EXCEPT !.phase = "done"] ELSE q

\* A panic that leaves ServeHTTP
Escape(q) == [Log(q, "escape", "", 0, "", Running(q))
                EXCEPT !.phase = "done", !.stack = <<>>, !.escaped = TRUE]

\* Injector.Apply(h) for an h that can be called: a default handler runs
\* to its end; a handler of the owner starts to run.
Apply(q, kind, id, h) ==
    LET q1 == Log(q, "invoke", kind, id, h, Running(q))
    IN  IF h = NotFoundErrorHandler THEN
            Write(WriteHeader(q1, 404), 19)
        ELSE IF h = InternalServerErrorHandler THEN
            Write(q1, StatusTextLen(500))
        ELSE [q1 EXCEPT !.stack =
                Append(@, [by |-> Len(q1.events), kind |-> kind])]

\* The deferred function of ServeHTTP, run by a panic: the header 500 on
\* the response writer ServeHTTP was given, then MustApply of the handler
\* of code 500.  A panic of that handler, or of MustApply, is a panic of
\* the deferred function.
Recover(a, q) ==
    IF q.phase = "recovering" THEN Escape(q)
    ELSE
        LET q1 == [Log(q, "panic", "", 0, "", Running(q))
                    EXCEPT !.phase = "recovering", !.stack = <<>>, !.rawCode = 500]
        IN  IF ~Invocable(a.errorHandlers[500]) THEN Escape(q1)
            ELSE Apply(q1, "recover", 500, a.errorHandlers[500])

\* Injector.MustApply(h): h is called; what cannot be called panics.
MustApply(a, q, kind, id, h) ==
    IF ~Invocable(h) THEN Recover(a, q) ELSE Apply(q, kind, id, h)

\* request.RequestVars[name] = value
PutVar(vs, name, value) ==
    SelectSeq(vs, LAMBDA b : b[1] # name) \o <<<<name, value>>>>

RECURSIVE BindVars(_, _, _, _)
\* The loop of next over the groups the pattern captured
BindVars(vs, params, caps, i) ==
    IF i > Len(caps) THEN vs
    ELSE BindVars(PutVar(vs, params[i], caps[i]), params, caps, i + 1)

\* hasErrorCode returns true: the handler of the code is called, or the
\* status text is written
HandleErrorCode_NoLengthTest(a, q) ==
    IF a.errorHandlers[q.code] # Nil
    THEN MustApply(a, q, "error", q.code, a.errorHandlers[q.code])
    ELSE HttpError(q, q.code)

HandleErrorCode(a, q) ==
    IF a.errorHandlers[q.code] # Nil /\ q.writtenLength = 0
    THEN MustApply(a, q, "error", q.code, a.errorHandlers[q.code])
    ELSE HttpError(q, q.code)

hasErrorCode_Above404(q) == q.code > 404

hasErrorCode_FirstOnly(q) == q.code > 399 /\ ~q.nextSet

\* The test of hasErrorCode
hasErrorCode(q) == q.code > 399

Shift_Keep(matches) == [match |-> matches[1], rest |-> matches]

Shift_Last(matches) ==
    [match |-> matches[Len(matches)], rest |-> SubSeq(matches, 1, Len(matches) - 1)]

\* match := matches[0]; matches = matches[1:]
Shift(matches) == [match |-> matches[1], rest |-> Tail(matches)]

\* The closure next of ServeHTTP, called by the running handler or by
\* ServeHTTP itself
next(a, q0) ==
    With(Log(q0, "advance", "", 0, "", Running(q0)), LAMBDA q :
        IF hasErrorCode(q) THEN HandleErrorCode(a, q)
        ELSE IF Len(q.matches) = 0 THEN
            MustApply(a, q, "notfound", 404, a.errorHandlers[404])
        ELSE
            LET match == Shift(q.matches).match
                r == a.routes[match]
                q1 == [q EXCEPT !.matches = Shift(q.matches).rest]
            IN  IF r.pattern = NilPattern THEN Recover(a, q1)
                ELSE With(FindStringSubmatch(r.pattern, q.path), LAMBDA caps :
                    IF Len(caps) > Len(r.params) THEN
                        With([q1 EXCEPT !.vars =
                                BindVars(@, r.params, SubSeq(caps, 1, Len(r.params)), 1)],
                             LAMBDA q2 : Recover(a, q2))
                    ELSE
                        With([q1 EXCEPT !.vars = BindVars(@, r.params, caps, 1),
                                        !.nextSet = TRUE],
                             LAMBDA q2 : MustApply(a, q2, "route", match, r.handlerFunc))))

CurrentApp == App(tables, routes, booted, errorHandlers)

\* ServeHTTP: the default handlers of 500 and 404
ServeDefaults(a0) ==
    LET a1 == IF a0.errorHandlers[500] = Nil
              THEN Error(a0, 500, InternalServerErrorHandler) ELSE a0
    IN  IF a1.errorHandlers[404] = Nil
        THEN Error(a1, 404, NotFoundErrorHandler) ELSE a1

\* ServeHTTP up to the first handler it calls
ServeHTTP(a0, method, path) ==
    LET a2 == ServeDefaults(a0)
        q0 == [Idle EXCEPT !.phase = "serving", !.method = method, !.path = path]
    IN  With(IF ~a2.booted THEN Boot(a2) ELSE a2, LAMBDA a3 :
            IF a3.status # "ok" THEN
                [app |-> a3, req |-> Recover(a3, q0)]
            ELSE
                With(MatchAll(a3.tables, a3.routes, Root,
                              [method |-> method, path |-> path]),
                     LAMBDA ms :
                        [app |-> a3,
                         req |-> next(a3, [q0 EXCEPT !.matches = ms, !.matched = ms])]))

\* No call of ServeHTTP is running
Quiet == fault = "none" /\ req.phase \in {"idle", "done"}

DoServeHTTP(method, path) ==
    /\ Quiet
    /\ \E s \in {ServeHTTP(CurrentApp, method, path)} :
           /\ tables' = s.app.tables
           /\ routes' = s.app.routes
           /\ booted' = s.app.booted
           /\ errorHandlers' = s.app.errorHandlers
           /\ fault' = IF s.app.status = "overflow" THEN "overflow" ELSE "none"
           /\ req' = Settle(s.req)
           /\ lastOp' = Op("ServeHTTP", s.app.status, s.app.booted # booted)
           /\ UNCHANGED <<conc, em, emOp>>

\* The steps of the handler that is running
Handling == fault = "none" /\ req.phase \in {"serving", "recovering"} /\ req.stack # <<>>

Top == req.stack[Len(req.stack)]

Step(q) == [q EXCEPT !.steps = @ + 1]

HandlerStep(q) ==
    /\ \E q1 \in {q} : req' = Settle(q1)
    /\ UNCHANGED <<routes, tables, booted, errorHandlers, fault, lastOp, conc, em, emOp>>

HandlerWriteHeader(code) ==
    /\ Handling /\ req.steps < MaxSteps
    /\ HandlerStep(Log(WriteHeader(Step(req), code), "status", "", code, "", Top.by))

HandlerWrite ==
    /\ Handling /\ req.steps < MaxSteps
    /\ HandlerStep(Log(Write(Step(req), 1), "write", "", 0, "", Top.by))

\* context.Next() or next(), by a route handler
HandlerNext ==
    /\ Handling /\ req.steps < MaxSteps
    /\ req.phase = "serving" /\ Top.kind = "route" /\ req.nextSet
    /\ HandlerStep(next(CurrentApp, Step(req)))

HandlerReturn ==
    /\ Handling
    /\ HandlerStep([Log(req, "return", "", 0, "", Top.by)
                        EXCEPT !.stack = SubSeq(@, 1, Len(@) - 1)])

HandlerPanic ==
    /\ Handling /\ req.steps < MaxSteps
    /\ HandlerStep(Recover(CurrentApp, Step(req)))

DoBoot ==
    /\ Configuring
    /\ CommitApp(Boot(CurrentApp), "Boot")

DoError(errorCode, handlerFunc) ==
    /\ Configuring
    /\ CommitApp(Error(CurrentApp, errorCode, handlerFunc), "Error")

(***************************************************************************)
(* Requests served at the same time.  net/http calls ServeHTTP in one      *)
(* goroutine per request, and micro.go holds no lock: the statements of    *)
(* Boot and Flush of two calls interleave.  A goroutine is at a pc of      *)
(* ServeHTTP; inside Flush it has a stack of frames, one per call of       *)
(* Flush, each with the table, the statement it is at (at), the slice its  *)
(* range loop goes over (rs, cs) and the index in it (i).  A step is one   *)
(* statement.  What the goroutine keeps in local variables (the stack and  *)
(* the matches of its request) is its own.                                 *)
(***************************************************************************)
Racing == fault = "none" /\ req.phase = "idle"

G(p) == conc.g[p]

Frame(t) == [t |-> t, at |-> "enter", i |-> 1, rs |-> <<>>, cs |-> <<>>]

TopFrame(p) == G(p).stack[Len(G(p).stack)]

\* The goroutine p is at the statement at of Flush
InFlush(p, at) ==
    /\ Racing /\ G(p).pc = "flush" /\ G(p).stack # <<>>
    /\ TopFrame(p).at = at

\* The step of p leaves p in the state gp
GoStep(p, gp) ==
    /\ conc' = [conc EXCEPT !.g[p] = gp, !.actor = p]
    /\ UNCHANGED <<fault, lastOp, req, em, emOp>>

WithTop(p, f) == [G(p) EXCEPT !.stack[Len(G(p).stack)] = f]

\* Flush returns: to the Flush that called it, or to Boot
Return(p) ==
    LET st == SubSeq(G(p).stack, 1, Len(G(p).stack) - 1)
    IN  [G(p) EXCEPT !.stack = st,
                     !.pc = IF st = <<>> THEN "setBooted" ELSE "flush"]

\* ServeHTTP up to the test of e.Booted(): the default handlers
GoArrive(p) ==
    /\ Racing /\ G(p).pc = "idle"
    /\ \E a \in {ServeDefaults(CurrentApp)} :
        /\ errorHandlers' = a.errorHandlers
        /\ conc' = [conc EXCEPT
                !.g[p].pc = IF booted THEN "match" ELSE "boot",
                !.before = IF @ = <<>> THEN <<CurrentHeap>> ELSE @,
                !.actor = p]
    /\ UNCHANGED <<routes, tables, booted, fault, lastOp, req, em, emOp>>

\* Boot: the test of e.Booted() and the call of Flush
GoBoot(p) ==
    /\ Racing /\ G(p).pc = "boot"
    /\ GoStep(p, IF booted THEN [G(p) EXCEPT !.pc = "match"]
                 ELSE [G(p) EXCEPT !.pc = "flush", !.stack = <<Frame(Root)>>])
    /\ UNCHANGED <<routes, tables, booted, errorHandlers>>

\* Flush: the test of IsFrozen, and the slice the first loop ranges over
GoFlushEnter(p) ==
    /\ InFlush(p, "enter")
    /\ LET f == TopFrame(p)
       IN  GoStep(p, IF tables[f.t].frozen THEN Return(p)
                     ELSE WithTop(p, [f EXCEPT !.at = "prefix",
                                               !.rs = tables[f.t].Routes]))
    /\ UNCHANGED <<routes, tables, booted, errorHandlers>>

\* route.path = rc.prefix + route.path, or the end of the first loop
GoPrefix(p) ==
    /\ InFlush(p, "prefix")
    /\ LET f == TopFrame(p)
       IN  IF f.i > Len(f.rs) THEN
               /\ GoStep(p, WithTop(p, [f EXCEPT !.at = "child", !.i = 1,
                                                 !.cs = tables[f.t].Children]))
               /\ UNCHANGED routes
           ELSE
               /\ routes' = [routes EXCEPT ![f.rs[f.i]].path = tables[f.t].prefix \o @]
               /\ GoStep(p, WithTop(p, [f EXCEPT !.at = "freeze"]))
    /\ UNCHANGED <<tables, booted, errorHandlers>>

\* route.freeze(): the test of IsFrozen
GoFreezeTest(p) ==
    /\ InFlush(p, "freeze")
    /\ LET f == TopFrame(p)
       IN  GoStep(p, IF routes[f.rs[f.i]].frozen
                     THEN WithTop(p, [f EXCEPT !.at = "prefix", !.i = @ + 1])
                     ELSE WithTop(p, [f EXCEPT !.at = "freezing"]))
    /\ UNCHANGED <<routes, tables, booted, errorHandlers>>

\* route.freeze(): what follows the test
GoFreeze(p) ==
    /\ InFlush(p, "freezing")
    /\ LET f == TopFrame(p)
       IN  /\ routes' = [routes EXCEPT ![f.rs[f.i]] = freeze([@ EXCEPT !.frozen = FALSE])]
           /\ GoStep(p, WithTop(p, [f EXCEPT !.at = "prefix", !.i = @ + 1]))
    /\ UNCHANGED <<tables, booted, errorHandlers>>

\* The second loop: setPrefix of the child and the call of its Flush, or
\* rc.frozen = true and the return.  The panic of mustNotBeFrozen is
\* recovered by ServeHTTP.
GoChild(p) ==
    /\ InFlush(p, "child")
    /\ LET f == TopFrame(p)
       IN  IF f.i > Len(f.cs) THEN
               /\ tables' = [tables EXCEPT ![f.t].frozen = TRUE]
               /\ GoStep(p, Return(p))
           ELSE IF ~mustNotBeFrozen(tables[f.cs[f.i]]) THEN
               /\ UNCHANGED tables
               /\ GoStep(p, [G(p) EXCEPT !.pc = "recovered", !.stack = <<>>])
           ELSE
               /\ tables' = [tables EXCEPT ![f.cs[f.i]] =
                                setPrefix(@, tables[f.t].prefix \o tables[f.cs[f.i]].prefix)]
               /\ GoStep(p, [G(p) EXCEPT
                                !.stack = SubSeq(@, 1, Len(@) - 1)
                                            \o <<[f EXCEPT !.at = "append"], Frame(f.cs[f.i])>>])
    /\ UNCHANGED <<routes, booted, errorHandlers>>

\* The loop that appends the routes of the child
GoAppend(p) ==
    /\ InFlush(p, "append")
    /\ LET f == TopFrame(p)
       IN  /\ tables' = [tables EXCEPT ![f.t].Routes = @ \o tables[f.cs[f.i]].Routes]
           /\ GoStep(p, WithTop(p, [f EXCEPT !.at = "clear"]))
    /\ UNCHANGED <<routes, booted, errorHandlers>>

\* routeCollection.Routes = []*Route{}
GoClear(p) ==
    /\ InFlush(p, "clear")
    /\ LET f == TopFrame(p)
       IN  /\ tables' = [tables EXCEPT ![f.cs[f.i]].Routes = <<>>]
           /\ GoStep(p, WithTop(p, [f EXCEPT !.at = "child", !.i = @ + 1]))
    /\ UNCHANGED <<routes, booted, errorHandlers>>

\* e.booted = true
GoSetBooted(p) ==
    /\ Racing /\ G(p).pc = "setBooted"
    /\ booted' = TRUE
    /\ GoStep(p, [G(p) EXCEPT !.pc = "match"])
    /\ UNCHANGED <<routes, tables, errorHandlers>>

\* matches = e.RequestMatcher.MatchAll(request)
GoMatchAll(p, method, path) ==
    /\ Racing /\ G(p).pc = "match"
    /\ GoStep(p, [G(p) EXCEPT !.pc = "next",
                    !.matches = MatchAll(tables, routes, Root,
                                         [method |-> method, path |-> path])])
    /\ UNCHANGED <<routes, tables, booted, errorHandlers>>

\* next, called by ServeHTTP or by the handler next called before: the
\* head of the matches is taken; the request ends when none is left
GoNext(p) ==
    /\ Racing /\ G(p).pc = "next"
    /\ GoStep(p, IF G(p).matches = <<>> THEN [G(p) EXCEPT !.pc = "done"]
                 ELSE [G(p) EXCEPT !.matches = Shift(@).rest])
    /\ UNCHANGED <<routes, tables, booted, errorHandlers>>

(***************************************************************************)
(* The input sets of the configuration steps.                              *)
(***************************************************************************)
RoutePaths == {<<"/", "a">>}
MountPaths == {<<>>, <<"v">>, <<"/", "p", "/">>}

\* The collections that are mounted: the application's own collection is the
\* top of the tree, the one ServeHTTP flushes and matches.
MountChildren == TableIds \ {Root}

\* The inputs of the mutators of a route
ParamPaths == {<<"/", "a">>, <<"/", "a", "/", ":", "i", "d">>}
MethodInputs == {<<"*">>, <<"get">>, <<"POST", "PUT">>}
NameInputs == {<<"n">>}
FragmentInputs == {<<"\\", "d", "+">>, <<"(">>}
AttrValues == {"v"}
RequestMethods == {"GET", "POST", "get", "DELETE"}

(***************************************************************************)
(* EventEmitter.  A slice of listeners is its backing array from the       *)
(* slice's first element on (as long as the capacity) and its length; the  *)
(* nil slice is what the map gives for an event that has no entry.         *)
(***************************************************************************)
EventNames == {"e1", "e2", "e3"}

Listeners == {"l1", "l2", "l3"}

\* What the listener returns when it is called
Continue(l) == l # "l2"

NilSlice == [nil |-> TRUE, arr |-> <<>>, len |-> 0]

\* []Listener{}
EmptySlice == [nil |-> FALSE, arr |-> <<>>, len |-> 0]

Cap(s) == Len(s.arr)

\* The elements of the slice
Items(s) == SubSeq(s.arr, 1, s.len)

\* s[lo:hi]: ok is false when the bounds are out of range (a panic)
SliceExpr(s, lo, hi) ==
    IF 0 <= lo /\ lo <= hi /\ hi <= Cap(s)
    THEN [ok |-> TRUE,
          slice |-> [nil |-> FALSE, arr |-> SubSeq(s.arr, lo + 1, Cap(s)),
                     len |-> hi - lo]]
    ELSE [ok |-> FALSE, slice |-> NilSlice]

\* append(s, items...): in place while the capacity allows it, else in a
\* new array of twice the capacity, or of the length needed if that is more
AppendSlice(s, items) ==
    LET need == s.len + Len(items)
    IN  IF need <= Cap(s) THEN
            [nil |-> s.nil /\ need = 0,
             arr |-> Items(s) \o items \o SubSeq(s.arr, need + 1, Cap(s)),
             len |-> need]
        ELSE
            LET newcap == IF need > 2 * Cap(s) THEN need ELSE 2 * Cap(s)
            IN  [nil |-> FALSE,
                 arr |-> Items(s) \o items \o [k \in 1..(newcap - need) |-> Nil],
                 len |-> need]

NewEventEmitter == [e \in EventNames |-> NilSlice]

\* len(em.handlers): the events that have an entry in the map
MapLen(h) == Cardinality({e \in EventNames : ~h[e].nil})

RECURSIVE EmitFrom(_, _)
\* The loop of Emit over the listeners: those it calls, in order
EmitFrom(ls, i) ==
    IF i > Len(ls) THEN <<>>
    ELSE IF ~Continue(ls[i]) THEN <<ls[i]>>
    ELSE <<ls[i]>> \o EmitFrom(ls, i + 1)

Emit(h, event) ==
    IF MapLen(h) > 0 /\ ~h[event].nil THEN EmitFrom(Items(h[event]), 1) ELSE <<>>

AddListener(h, event, listener) ==
    LET h1 == IF ~h[event].nil THEN [h EXCEPT ![event] = EmptySlice] ELSE h
    IN  [h1 EXCEPT ![event] = AppendSlice(@, <<listener>>)]

\* The index, from 0, of the first handler equal to the listener, or -1
IndexOf(s, listener) ==
    IF \E i \in 1..s.len : s.arr[i] = listener
    THEN (CHOOSE i \in 1..s.len :
            /\ s.arr[i] = listener
            /\ \A j \in 1..(i - 1) : s.arr[j] # listener) - 1
    ELSE -1

RemoveListener(h, event, listener) ==
    LET s == h[event]
        i == IndexOf(s, listener)
        length == MapLen(h)
        head == SliceExpr(s, 0, i).slice
        tail == SliceExpr(s, i + 1, length - 1)
    IN  IF s.nil \/ i = -1 THEN [handlers |-> h, found |-> FALSE, status |-> "ok"]
        ELSE IF i = length - 1 THEN
            [handlers |-> [h EXCEPT ![event] = head], found |-> TRUE, status |-> "ok"]
        ELSE IF ~tail.ok THEN
            [handlers |-> h, found |-> FALSE, status |-> "panic"]
        ELSE
            [handlers |-> [h EXCEPT ![event] = AppendSlice(head, Items(tail.slice))],
             found |-> TRUE, status |-> "ok"]

\* The listeners added and not yet removed, in the order they were added
NoneHeld == [e \in EventNames |-> <<>>]

RECURSIVE Without(_, _)
\* ls without the first occurrence of the listener
Without(ls, listener) ==
    IF ls = <<>> THEN <<>>
    ELSE IF Head(ls) = listener THEN Tail(ls)
    ELSE <<Head(ls)>> \o Without(Tail(ls), listener)

EmOp(op, event, listener, status, found, called, held, prev) ==
    [op |-> op, event |-> event, listener |-> listener, status |-> status,
     found |-> found, called |-> called, held |-> held, prev |-> prev]

NoCall == EmOp("New", "", "", "ok", FALSE, <<>>, NoneHeld, NoneHeld)

Init ==
    /\ routes = <<>>
    /\ tables = [t \in TableIds |-> NewControllerCollection]
    /\ booted = FALSE
    /\ errorHandlers = [c \in Codes |-> Nil]
    /\ fault = "none"
    /\ lastOp = Op("New", "ok", FALSE)
    /\ req = Idle
    /\ conc = NoRequests
    /\ em = NewEventEmitter
    /\ emOp = NoCall

(***************************************************************************)
(* Spec: collections are built with All, AddRoute and Mount, and flushed.  *)
(***************************************************************************)
Next ==
    \/ \E t \in TableIds, path \in RoutePaths : HasRoom(t) /\ DoAll(t, path, "h1")
    \/ \E t \in TableIds, r \in 1..Len(routes) : DoAddRoute(t, r)
    \/ \E t \in TableIds, c \in MountChildren, path \in MountPaths :
            DoMount(t, path, c)
    \/ \E t \in TableIds : DoFlush(t)

Spec == Init /\ [][Next]_vars

(***************************************************************************)
(* Properties of Flush and Mount.  A property of one call is stated for    *)
(* every reachable state in which the owner can make the call, and for     *)
(* every argument: the call's result is computed from that state.          *)
(***************************************************************************)
ChildSet(tb, t) == {tb[t].Children[i] : i \in 1..Len(tb[t].Children)}

RECURSIVE ReachFrom(_, _)
ReachFrom(tb, S) ==
    LET T == S \cup UNION {ChildSet(tb, t) : t \in S}
    IN  IF T = S THEN S ELSE ReachFrom(tb, T)

\* The tables below t in the mount relation
Descendants(tb, t) == ReachFrom(tb, ChildSet(tb, t))

Acyclic(tb) == \A t \in TableIds : t \notin Descendants(tb, t)

RECURSIVE Flatten(_, _)
RECURSIVE FlattenList(_, _, _)
\* The routes of t, then those of its children in mount order, depth first
\* (of a tree).
Flatten(tb, t) == tb[t].Routes \o FlattenList(tb, tb[t].Children, 1)
FlattenList(tb, cs, i) ==
    IF i > Len(cs) THEN <<>>
    ELSE Flatten(tb, cs[i]) \o FlattenList(tb, cs, i + 1)

AllFrozenRoutes(h, rs) == \A i \in 1..Len(rs) : h.routes[rs[i]].frozen

\* C4: after Flush of a table t that is not frozen, t.Routes is t's own
\* routes in insertion order followed by each child's routes in mount order,
\* depth first; every route of t.Routes is frozen, every descendant's Routes
\* is empty, and t and all its descendants are frozen.
C4_FlushFlattens ==
    \A t \in TableIds :
        LET h == Flush(CurrentHeap, t, 1)
        IN  (Configuring /\ ~tables[t].frozen /\ h.status = "ok") =>
                /\ h.tables[t].Routes = Flatten(tables, t)
                /\ AllFrozenRoutes(h, h.tables[t].Routes)
                /\ h.tables[t].frozen
                /\ \A d \in Descendants(tables, t) :
                        h.tables[d].Routes = <<>> /\ h.tables[d].frozen

\* A flushed application table that holds a route of its own followed by a
\* route that came from a flushed, emptied child.
C4_Witness ==
    /\ lastOp = Op("Flush", "ok", TRUE)
    /\ tables[Root].frozen
    /\ Len(tables[Root].Routes) >= 2
    /\ \E c \in ChildSet(tables, Root) :
            tables[c].frozen /\ tables[c].Routes = <<>> /\ tables[c].prefix # <<>>
    /\ \A i \in 1..Len(tables[Root].Routes) : routes[tables[Root].Routes[i]].frozen
    /\ \E i \in 1..Len(tables[Root].Routes) :
            routes[tables[Root].Routes[i]].path[2] # "a"

RECURSIVE PathsPrefixed(_, _, _, _)
\* Every route listed in the subtree of t has, in heap h, the path it had in
\* heap pre with the prefixes of the chain down to its table (acc, then the
\* table's own) put before it once.
PathsPrefixed(pre, h, t, acc) ==
    LET pfx == acc \o pre.tables[t].prefix
        rs == pre.tables[t].Routes
        cs == pre.tables[t].Children
    IN  /\ \A i \in 1..Len(rs) : h.routes[rs[i]].path = pfx \o pre.routes[rs[i]].path
        /\ \A k \in 1..Len(cs) : PathsPrefixed(pre, h, cs[k], pfx)

\* C5: after Flush the path of every route is the normalized mount prefixes
\* of the chain from the flushed table down to the route's table, in mount
\* order, followed by the declared path; each prefix is applied once.
C5_PrefixAppliedOnce ==
    \A t \in TableIds :
        LET h == Flush(CurrentHeap, t, 1)
        IN  (Configuring /\ ~tables[t].frozen /\ h.status = "ok") =>
                PathsPrefixed(CurrentHeap, h, t, <<>>)

\* C5, for the tables whose routes are each listed once in the whole tree.
ListedOnce(tb, t) ==
    LET rs == Flatten(tb, t)
    IN  \A i, j \in 1..Len(rs) : rs[i] = rs[j] => i = j

C5_PrefixAppliedOncePerListing ==
    \A t \in TableIds :
        LET h == Flush(CurrentHeap, t, 1)
        IN  (Configuring /\ ~tables[t].frozen /\ h.status = "ok"
                /\ ListedOnce(tables, t)) =>
                PathsPrefixed(CurrentHeap, h, t, <<>>)

\* The number of times c occurs in the Children lists
Occurrences(tb, c) ==
    Cardinality({<<t, i>> \in TableIds \X (1..Cardinality(TableIds) * 2) :
                    i <= Len(tb[t].Children) /\ tb[t].Children[i] = c})

\* C10: a table occurs at most once in all the Children lists, and Mount of
\* a child that has a parent changes neither the Children of the table it is
\* mounted on nor the prefix of the child.
C10_MountedOnce ==
    /\ \A c \in TableIds : Occurrences(tables, c) <= 1
    /\ \A t \in TableIds, c \in TableIds, path \in MountPaths :
            (Configuring /\ tables[c].hasParent) =>
                LET h == Mount(CurrentHeap, t, path, c)
                IN  /\ h.status = "ok"
                    /\ h.tables[t].Children = tables[t].Children
                    /\ h.tables[c].prefix = tables[c].prefix

\* A Mount of a mounted table has just been made, and changed nothing.
C10_Witness ==
    /\ lastOp = Op("Mount", "ok", FALSE)
    /\ \E c \in TableIds : tables[c].hasParent /\ Occurrences(tables, c) = 1

(***************************************************************************)
(* Properties of frozen collections and frozen routes.                     *)
(***************************************************************************)
\* The call is refused and the routes of the table t are what they were
Rejected(h, t) == h.status = "panic" /\ h.tables[t].Routes = tables[t].Routes

\* C6: every route-adding operation on a frozen table (AddRoute, All, Get,
\* Post, Put, Delete, Use) is rejected and leaves the table's Routes
\* unchanged, and every route of a frozen table's Routes is frozen.
C6_FrozenTableRejectsRoutes ==
    \A t \in TableIds :
        (Configuring /\ tables[t].frozen) =>
            /\ \A path \in RoutePaths, hf \in Callables :
                    /\ Rejected(All(CurrentHeap, t, path, hf), t)
                    /\ Rejected(Get(CurrentHeap, t, path, hf), t)
                    /\ Rejected(Post(CurrentHeap, t, path, hf), t)
                    /\ Rejected(Put(CurrentHeap, t, path, hf), t)
                    /\ Rejected(Delete(CurrentHeap, t, path, hf), t)
                    /\ Rejected(Use(CurrentHeap, t, path, hf), t)
            /\ \A r \in 1..Len(routes) : Rejected(AddRoute(CurrentHeap, t, r), t)
            /\ AllFrozenRoutes(CurrentHeap, tables[t].Routes)

\* C7: a mutator called on a frozen route (SetMethods, SetHandler, Assert,
\* SetAttribute, SetName) leaves the whole route as it was.
C7_FrozenRouteImmutable ==
    \A r \in 1..Len(routes) :
        (Configuring /\ routes[r].frozen) =>
            /\ \A ms \in MethodInputs : SetMethods(routes[r], ms) = routes[r]
            /\ \A hf \in HandlerValues : SetHandler(routes[r], hf) = routes[r]
            /\ \A k \in AssertionKeys, f \in FragmentInputs :
                    AssertRoute(routes[r], k, f) = routes[r]
            /\ \A k \in AttrKeys, v \in AttrValues :
                    SetAttribute(routes[r], k, v) = routes[r]
            /\ \A name \in NameInputs : SetName(routes[r], name) = routes[r]

Range(f) == {f[i] : i \in DOMAIN f}

\* The method matcher freeze gave the route
MethodMatcherOf(r) == r.matchers[2]

\* C9: a frozen route accepts a request's method iff its method set is
\* empty, or holds the wildcard "*", or holds the request's method compared
\* without regard to case.
C9_MethodAccepted ==
    \A r \in 1..Len(routes), m \in RequestMethods :
        routes[r].frozen =>
            (MatcherMatch(MethodMatcherOf(routes[r]), [method |-> m, path |-> <<>>])
                <=> \/ routes[r].methods = <<>>
                    \/ "*" \in Range(routes[r].methods)
                    \/ \E x \in Range(routes[r].methods) : ToUpper(x) = ToUpper(m))

(***************************************************************************)
(* SpecRoute: one route is made with NewRoute, configured with its         *)
(* mutators, added to the application's collection and frozen by Flush.    *)
(***************************************************************************)
NextRoute ==
    \/ \E path \in ParamPaths : Len(routes) = 0 /\ DoNewRoute(path)
    \/ \E r \in 1..Len(routes) : DoAddRoute(Root, r)
    \/ DoFlush(Root)
    \/ \E r \in 1..Len(routes), name \in NameInputs : DoSetName(r, name)
    \/ \E r \in 1..Len(routes), ms \in MethodInputs : DoSetMethods(r, ms)
    \/ \E r \in 1..Len(routes), hf \in {"h1", "notfunc"} : DoSetHandler(r, hf)
    \/ \E r \in 1..Len(routes), k \in {<<"i", "d">>}, f \in FragmentInputs :
            DoAssert(r, k, f)
    \/ \E r \in 1..Len(routes), k \in AttrKeys, v \in AttrValues :
            DoSetAttribute(r, k, v)

SpecRoute == Init /\ [][NextRoute]_vars

(***************************************************************************)
(* SpecVerbs: routes are added to the application's collection and to a    *)
(* mounted one with every route-adding call, and the collections flushed.  *)
(***************************************************************************)
VerbTables == {Root, "A"}

NextVerbs ==
    \/ \E t \in VerbTables, path \in RoutePaths, hf \in {"h1", "notfunc"} :
            HasRoom(t) /\ DoAll(t, path, hf)
    \/ \E t \in VerbTables, path \in RoutePaths : HasRoom(t) /\ DoGet(t, path, "h1")
    \/ \E t \in VerbTables, path \in RoutePaths : HasRoom(t) /\ DoPost(t, path, "h1")
    \/ \E t \in VerbTables, path \in RoutePaths : HasRoom(t) /\ DoPut(t, path, "h1")
    \/ \E t \in VerbTables, path \in RoutePaths : HasRoom(t) /\ DoDelete(t, path, "h1")
    \/ \E t \in VerbTables, path \in RoutePaths : HasRoom(t) /\ DoUse(t, path, "h1")
    \/ \E path \in RoutePaths : DoNewRoute(path)
    \/ \E t \in VerbTables, r \in 1..Len(routes) : DoAddRoute(t, r)
    \/ DoMount(Root, <<"v">>, "A")
    \/ \E t \in VerbTables : DoFlush(t)

SpecVerbs == Init /\ [][NextVerbs]_vars

(***************************************************************************)
(* SpecServe: the owner adds routes to the application's collection,       *)
(* registers error handlers and may boot; then requests are served.        *)
(***************************************************************************)
ServePaths == {<<"/", "a">>}
RequestPaths == {<<"/", "a">>, <<"/", "b">>}
HandlerCodes == {200, 404}

NextServe ==
    \/ \E path \in ServePaths :
            Len(routes) < MaxServeRoutes /\ DoAll(Root, path, "h1")
    \/ \E c \in {399, 404} : DoError(c, "e404")
    \/ DoError(500, "e500")
    \/ DoBoot
    \/ \E path \in RequestPaths : DoServeHTTP("GET", path)
    \/ \E c \in HandlerCodes : HandlerWriteHeader(c)
    \/ HandlerWrite
    \/ HandlerNext
    \/ HandlerReturn
    \/ HandlerPanic

SpecServe == Init /\ [][NextServe]_vars

(***************************************************************************)
(* The history of the call of ServeHTTP that is running or has returned.   *)
(***************************************************************************)
Ev == req.events

IsInvoke(e, kind) == Ev[e].ev = "invoke" /\ Ev[e].kind = kind

\* The invocations of route handlers, as indices of the history
RouteInvokes == {e \in DOMAIN Ev : IsInvoke(e, "route")}

\* e is the k-th invocation of a route handler
Ordinal(e) == Cardinality({x \in RouteInvokes : x <= e})

\* The handler invoked at e1 called next before e
AdvancedBy(e1, e) ==
    \E e2 \in (e1 + 1)..(e - 1) : Ev[e2].ev = "advance" /\ Ev[e2].by = e1

\* The routes of the application's table that match the request, in the
\* order of the table
TableMatches ==
    SelectSeq(tables[Root].Routes,
              LAMBDA r : RouteMatches(routes[r], [method |-> req.method, path |-> req.path]))

SetsNotFound(e) ==
    /\ Ev[e].ev = "status" /\ Ev[e].code = 404 /\ Ev[e].written = 0
    /\ Ev[e].by \in RouteInvokes
    /\ \A e2 \in DOMAIN Ev : ~(Ev[e2].ev = "write" /\ Ev[e2].by = Ev[e].by)

\* C2 as stated: when a route handler has set the status 404 and written
\* no body, then by the end of the dispatch the handler registered for 404
\* was invoked and no route handler was invoked afterwards.
C2_NotFoundShortCircuits ==
    req.phase = "done" =>
        \A e \in DOMAIN Ev :
            SetsNotFound(e) /\ errorHandlers[404] # Nil =>
                /\ \E e2 \in DOMAIN Ev :
                    /\ e2 > e /\ IsInvoke(e2, "error")
                    /\ Ev[e2].id = 404 /\ Ev[e2].h = errorHandlers[404]
                /\ \A e3 \in RouteInvokes : e3 < e

\* C2, corrected: the status is looked at when next is called.  A call of
\* next made while the status is above 399 and nothing is written invokes
\* the handler registered for that status, or writes the status text when
\* none is registered, and invokes no route handler; an error handler is
\* invoked by nothing else than such a call, and a route handler only by a
\* call made while the status is below 400.
C2_AdvanceWithErrorCode ==
    /\ \A e \in DOMAIN Ev :
        Ev[e].ev = "advance" /\ Ev[e].code > 399 /\ Ev[e].written = 0 =>
            /\ e + 1 \in DOMAIN Ev
            /\ IF errorHandlers[Ev[e].code] # Nil
               THEN /\ IsInvoke(e + 1, "error")
                    /\ Ev[e + 1].id = Ev[e].code
                    /\ Ev[e + 1].h = errorHandlers[Ev[e].code]
               ELSE Ev[e + 1].ev = "fallback" /\ Ev[e + 1].id = Ev[e].code
    /\ \A e \in DOMAIN Ev :
        IsInvoke(e, "error") =>
            /\ e > 1 /\ Ev[e - 1].ev = "advance"
            /\ Ev[e - 1].code > 399 /\ Ev[e - 1].written = 0
    /\ \A e \in RouteInvokes :
        e > 1 /\ Ev[e - 1].ev = "advance" /\ Ev[e - 1].code < 400

\* A route handler set 404, wrote nothing and called next, which invoked
\* the handler the owner registered for 404
C2_Witness ==
    \E e \in DOMAIN Ev :
        /\ SetsNotFound(e)
        /\ e + 2 \in DOMAIN Ev
        /\ Ev[e + 1].ev = "advance" /\ Ev[e + 1].by = Ev[e].by
        /\ IsInvoke(e + 2, "error") /\ Ev[e + 2].h = "e404"

\* The request was matched against the table and no route matched
NoRouteMatched ==
    /\ req.phase = "done"
    /\ Ev # <<>> /\ Ev[1].ev = "advance"
    /\ req.matched = <<>>

NotFoundInvokes == {e \in DOMAIN Ev : Ev[e].ev = "invoke" /\ Ev[e].id = 404}

\* C3: when no route of the frozen table matches the request, the dispatch
\* invokes the handler of 404 exactly once and no route handler.
C3_NotFoundOnce ==
    NoRouteMatched => Cardinality(NotFoundInvokes) = 1 /\ RouteInvokes = {}

\* C3 where a handler of 404 is registered, as it is when the first
\* request boots the application
C3_NotFoundOnce_Registered ==
    NoRouteMatched /\ errorHandlers[404] # Nil =>
        Cardinality(NotFoundInvokes) = 1 /\ RouteInvokes = {}

\* C8: Error registers the handler when the code is 400 or more and the
\* application has not booted, and leaves the handlers unchanged when the
\* code is below 400 or the application has booted.
C8_ErrorRegistration ==
    \A errorCode \in Codes, handlerFunc \in {"e404", "e500"} :
        LET a == Error(CurrentApp, errorCode, handlerFunc)
        IN  /\ a.tables = tables /\ a.routes = routes /\ a.booted = booted
            /\ IF errorCode < 400 \/ booted
               THEN /\ a.errorHandlers = errorHandlers
                    /\ ~booted => a.status = "panic"
               ELSE /\ a.errorHandlers = [errorHandlers EXCEPT ![errorCode] = handlerFunc]
                    /\ a.status = "ok"

\* Error was called after Boot and registered nothing
C8_Witness ==
    /\ booted /\ lastOp = Op("Error", "ok", FALSE)
    /\ errorHandlers[404] = Nil

(***************************************************************************)
(* SpecRace: the owner builds a tree of two collections and may boot; then *)
(* two requests are served at the same time.                               *)
(***************************************************************************)
RaceTables == {Root, "A"}
RaceRoutePaths == {<<"/", ":", "x">>}
RaceRequestPaths == {<<"/", "v", "/", "a">>}

NextRace ==
    \/ \E t \in RaceTables, path \in RaceRoutePaths : HasRoom(t) /\ DoAll(t, path, "h1")
    \/ DoMount(Root, <<"v">>, "A")
    \/ DoBoot
    \/ \E p \in Goroutines : GoArrive(p)
    \/ \E p \in Goroutines : GoBoot(p)
    \/ \E p \in Goroutines : GoFlushEnter(p)
    \/ \E p \in Goroutines : GoPrefix(p)
    \/ \E p \in Goroutines : GoFreezeTest(p)
    \/ \E p \in Goroutines : GoFreeze(p)
    \/ \E p \in Goroutines : GoChild(p)
    \/ \E p \in Goroutines : GoAppend(p)
    \/ \E p \in Goroutines : GoClear(p)
    \/ \E p \in Goroutines : GoSetBooted(p)
    \/ \E p \in Goroutines, path \in RaceRequestPaths : GoMatchAll(p, "GET", path)
    \/ \E p \in Goroutines : GoNext(p)

SpecRace == Init /\ [][NextRace]_vars

\* Every request that arrived has been served
AllServed ==
    /\ conc.before # <<>>
    /\ \A p \in Goroutines : G(p).pc \in {"idle", "done", "recovered"}

\* C11: when two requests arrive at an application that has not booted,
\* the route tree is frozen once: under every interleaving the tables and
\* the routes end as a single Flush of the tree leaves them.
C11_FrozenOnce ==
    AllServed =>
        \E h \in {Flush(conc.before[1], Root, 1)} :
            tables = h.tables /\ routes = h.routes

\* C11 for one request: the other goroutine serves none
C11_FrozenOnce_Alone ==
    (AllServed /\ \E p \in Goroutines : G(p).pc = "idle") =>
        \E h \in {Flush(conc.before[1], Root, 1)} :
            tables = h.tables /\ routes = h.routes

\* C15: once the application has booted, the steps of the requests being
\* served leave the tables and the routes as they are, and the local state
\* of a request (its remaining matches) is changed by its own steps only.
C15_TableReadOnly ==
    [][(booted /\ conc' # conc) =>
            /\ tables' = tables /\ routes' = routes
            /\ \A p \in Goroutines : conc'.g[p] # conc.g[p] => conc'.actor = p]_vars

\* No request that arrived before the boot is still in Boot
Settled ==
    booted /\ \A p \in Goroutines : G(p).pc \notin {"boot", "flush", "setBooted"}

\* C15 for the requests that arrive once Boot has returned
C15_TableReadOnly_Settled ==
    [][(Settled /\ conc' # conc) =>
            /\ tables' = tables /\ routes' = routes /\ Settled'
            /\ \A p \in Goroutines : conc'.g[p] # conc.g[p] => conc'.actor = p]_vars

\* C15 for requests served one after the other (SpecServe)
C15_TableReadOnly_OneByOne ==
    [][(booted /\ req' # req) => (tables' = tables /\ routes' = routes)]_vars

\* A route handler panicked at e, and ServeHTTP recovered as C12 says
Recovered(e) ==
    /\ e + 1 \in DOMAIN Ev
    /\ IsInvoke(e + 1, "recover") /\ Ev[e + 1].id = 500
    /\ Ev[e + 1].h = errorHandlers[500]
    /\ \A e3 \in RouteInvokes : e3 < e
    /\ \A e4 \in DOMAIN Ev : Ev[e4].ev = "escape" => Ev[e4].by = e + 1

RoutePanics == {e \in DOMAIN Ev : Ev[e].ev = "panic" /\ Ev[e].by \in RouteInvokes}

\* C12: when a route handler panics, ServeHTTP recovers: the handler of
\* code 500 is invoked, no route handler is invoked afterwards, and no
\* panic leaves ServeHTTP but one of the handler of code 500 itself.
C12_PanicRecovered == \A e \in RoutePanics : Recovered(e)

\* C12 where a handler of 500 is registered
C12_PanicRecovered_Registered ==
    errorHandlers[500] # Nil => \A e \in RoutePanics : Recovered(e)

\* C13: while a request is dispatched, a handler is registered for 404
\* and for 500.
C13_HandlersRegistered ==
    req.phase \in {"serving", "recovering", "done"} =>
        errorHandlers[404] # Nil /\ errorHandlers[500] # Nil

\* C13 for an application that the request boots
C13_HandlersRegistered_LazyBoot ==
    (Quiet /\ ~booted) =>
        \A path \in {<<"/", "a">>} :
            \E s \in {ServeHTTP(CurrentApp, "GET", path)} :
                s.app.errorHandlers[404] # Nil /\ s.app.errorHandlers[500] # Nil

\* The requests MatchAll is asked about
MatchRequests ==
    [method : {"GET", "post"}, path : {<<"/", "a">>, <<"/", "v", "/", "a">>, <<"/", "b">>}]

\* The pattern compiled for the route and its methods accept the request
Accepts(r, request) ==
    /\ r.pattern # NilPattern /\ MatchString(r.pattern, request.path)
    /\ MethodMatch(r.methods, request.method)

\* C14: on a frozen table MatchAll returns the routes that the pattern
\* matcher and the method matcher both accept, in the order of the table,
\* and nothing when none is accepted.
C14_MatchAllSubsequence ==
    \A t \in TableIds :
        tables[t].frozen =>
            \A request \in MatchRequests :
                MatchAll(tables, routes, t, request)
                    = SelectSeq(tables[t].Routes, LAMBDA id : Accepts(routes[id], request))

\* C14 for a frozen table all of whose routes are frozen
C14_MatchAllSubsequence_AllFrozen ==
    \A t \in TableIds :
        (tables[t].frozen /\ \A k \in 1..Len(tables[t].Routes) : routes[tables[t].Routes[k]].frozen) =>
            \A request \in MatchRequests :
                MatchAll(tables, routes, t, request)
                    = SelectSeq(tables[t].Routes, LAMBDA id : Accepts(routes[id], request))

(***************************************************************************)
(* SpecParams: one route is declared on the application for a path with    *)
(* parameters or groups, assertions are put on it, and requests are        *)
(* served.                                                                 *)
(***************************************************************************)
PatternPaths ==
    { <<"/", "c", "/", ":", "i", "d", "/", ":", "d">>,
      <<"/", ":", "i", "d", "?">>,
      <<"/", "(", "\\", "d", "+", ")">>,
      <<"/", ":", "i", "d", "/", "(", "\\", "d", "+", ")">>,
      <<"/", "(", "\\", "d", "+", ")", "/", "(", "\\", "w", "+", ")">> }

PatternRequestPaths ==
    { <<"/", "c", "/", "4", "2", "/", "x">>,
      <<"/", "c", "/", "x", "/", "4", "2">>,
      <<"/", "4", "2">>,
      <<"/", "x", "/", "4">>,
      <<"/", "4", "/", "x">>,
      <<"/">> }

AssertFragments == {<<"\\", "d", "+">>, <<"(", "\\", "d", ")", "\\", "d">>}

NextParams ==
    \/ \E path \in PatternPaths : Len(routes) = 0 /\ DoAll(Root, path, "h1")
    \/ \E f \in AssertFragments : Len(routes) = 1 /\ DoAssert(1, <<"i", "d">>, f)
    \/ \E path \in PatternRequestPaths : DoServeHTTP("GET", path)
    \/ HandlerReturn

SpecParams == Init /\ [][NextParams]_vars

\* The segments of a path: the texts between its slashes, in order
RECURSIVE Split(_, _, _, _)
Split(s, i, cur, acc) ==
    IF i > Len(s) THEN Append(acc, cur)
    ELSE IF s[i] = "/" THEN Split(s, i + 1, <<>>, Append(acc, cur))
    ELSE Split(s, i + 1, Append(cur, s[i]), acc)

Segments(s) == Split(s, 1, <<>>, <<>>)

\* A path made of literal text and named parameters only
NamedPath(path) ==
    /\ \A i \in DOMAIN path : path[i] \in WordChars \cup {"/", ":"}
    /\ \E i \in DOMAIN path : path[i] = ":"

IsNamed(seg) == Len(seg) > 1 /\ seg[1] = ":"

\* The positions, among the segments of a path, of its named parameters
NamedSegments(path) ==
    LET segs == Segments(path)
    IN  SelectSeq([k \in DOMAIN segs |-> k], LAMBDA k : IsNamed(segs[k]))

DeclaredNames(path) ==
    LET segs == Segments(path)
        at == NamedSegments(path)
    IN  [i \in DOMAIN at |-> Tail(segs[at[i]])]

\* What dispatch has to bind for a request on a path of named parameters:
\* the i-th name with the text of the request at the i-th parameter
DeclaredBindings(path, requested) ==
    LET at == NamedSegments(path)
        names == DeclaredNames(path)
        given == Segments(requested)
    IN  [i \in DOMAIN at |->
            <<names[i], IF at[i] <= Len(given) THEN given[at[i]] ELSE <<>>>>]

FirstMatched == routes[req.matched[1]]

ParamsInOrder(plain(_)) ==
    /\ \A n \in DOMAIN routes :
          routes[n].frozen /\ NamedPath(routes[n].path) /\ plain(routes[n])
              => routes[n].params = DeclaredNames(routes[n].path)
    /\ (req.phase # "idle" /\ req.matched # <<>>
            /\ NamedPath(FirstMatched.path) /\ plain(FirstMatched))
          => req.vars = DeclaredBindings(FirstMatched.path, req.path)

\* C16: for a path of literal text and named parameters, the frozen route's
\* params are the parameter names in declaration order, and dispatch binds
\* the value captured for the i-th parameter to the key params[i]
C16_ParamsInOrder == ParamsInOrder(LAMBDA r : TRUE)

\* An assertion fragment without a group of its own
GroupFree(r) ==
    \A k \in AssertionKeys :
        \A i \in DOMAIN r.assertions[k] :
            r.assertions[k][i] = "(" => i = 1

\* The same holds when no assertion of the route brings a group of its own
C16_ParamsInOrder_GroupFree == ParamsInOrder(GroupFree)

C16_Bound ==
    /\ req.phase # "idle" /\ req.matched # <<>>
    /\ FirstMatched.path = <<"/", "c", "/", ":", "i", "d", "/", ":", "d">>
    /\ req.vars = << <<<<"i", "d">>, <<"4", "2">>>>, <<<<"d">>, <<"x">>>> >>
    /\ RouteInvokes # {}

\* C19: for every path and every assertion the frozen route has as many
\* params as its compiled pattern has capture groups
C19_ParamsMatchGroups ==
    \A n \in DOMAIN routes :
        routes[n].frozen => Len(routes[n].params) = NumSubexp(routes[n].pattern)

\* The raw groups of a path: its opening parentheses outside any group
RECURSIVE RawGroups(_, _, _)
RawGroups(path, i, depth) ==
    IF i > Len(path) THEN 0
    ELSE IF path[i] = "\\" THEN RawGroups(path, i + 2, depth)
    ELSE IF path[i] = "(" THEN
        (IF depth = 0 THEN 1 ELSE 0) + RawGroups(path, i + 1, depth + 1)
    ELSE IF path[i] = ")" THEN RawGroups(path, i + 1, depth - 1)
    ELSE RawGroups(path, i + 1, depth)

\* The same holds for a path with at most one raw group whose assertions
\* bring no group of their own
C19_ParamsMatchGroups_OneRawGroup ==
    \A n \in DOMAIN routes :
        (routes[n].frozen /\ GroupFree(routes[n])
            /\ RawGroups(routes[n].path, 1, 0) <= 1)
          => Len(routes[n].params) = NumSubexp(routes[n].pattern)

IsSynthetic(name) == \A i \in DOMAIN name : name[i] \in Digits

SyntheticNames(r) == SelectSeq(r.params, IsSynthetic)

\* C20: the raw groups of a path are named "0", "1", ... in declaration
\* order, also when named parameters stand before or between them
C20_RawGroupNames ==
    \A n \in DOMAIN routes :
        routes[n].frozen =>
            SyntheticNames(routes[n]) =
                [k \in 1..RawGroups(routes[n].path, 1, 0) |-> Itoa(k - 1)]

\* The same holds for a path whose only raw group is its first parameter
C20_RawGroupNames_FirstOnly ==
    \A n \in DOMAIN routes :
        (routes[n].frozen /\ RawGroups(routes[n].path, 1, 0) <= 1
            /\ \A i \in DOMAIN routes[n].path : routes[n].path[i] # ":")
          => SyntheticNames(routes[n]) =
                [k \in 1..RawGroups(routes[n].path, 1, 0) |-> Itoa(k - 1)]

\* The step is a call of next made by a handler of the running dispatch
Advanced ==
    /\ Handling
    /\ Len(req'.events) > Len(req.events)
    /\ req'.events[Len(req.events) + 1].ev = "advance"

\* C17: a call of next made while the status is 400 or more pops no route
\* from the remaining matches and invokes no route handler, whichever call
\* of the dispatch it is
C17_ErrorStopsChain ==
    [][(Advanced /\ req.code > 399) =>
            /\ req'.matches = req.matches
            /\ \A e \in DOMAIN req'.events :
                  (req'.events[e].ev = "invoke" /\ req'.events[e].kind = "route")
                      => e <= Len(req.events)]_vars

\* A route handler called next with a status of 400 or more while matched
\* routes were still waiting, and they still are
C17_Witness ==
    /\ req.matches # <<>>
    /\ \E e \in DOMAIN Ev :
          /\ Ev[e].ev = "advance" /\ Ev[e].code > 399
          /\ Ev[e].by \in RouteInvokes
          /\ \A e2 \in RouteInvokes : e2 < e

\* C18: a call of next made with a status c of 400 or more invokes the
\* handler registered for c iff there is one and nothing was written;
\* otherwise it invokes no error handler and writes the status text of c
C18_HandlerOrStatusText ==
    [][(Advanced /\ req.code > 399) =>
            LET n == Len(req.events) + 1
                c == req.code
                added == (n + 1)..Len(req'.events)
            IN  IF errorHandlers[c] # Nil /\ req.writtenLength = 0
                THEN /\ n + 1 \in DOMAIN req'.events
                     /\ req'.events[n + 1].ev = "invoke"
                     /\ req'.events[n + 1].kind = "error"
                     /\ req'.events[n + 1].id = c
                     /\ req'.events[n + 1].h = errorHandlers[c]
                ELSE /\ \A e \in added : req'.events[e].ev # "invoke"
                     /\ \E e \in added :
                          /\ req'.events[e].ev = "fallback"
                          /\ req'.events[e].id = c
                     /\ req'.code = c
                     /\ req'.writtenLength =
                            req.writtenLength + StatusTextLen(c) + 1]_vars

\* A route handler wrote a part of the body, set a status that has a
\* registered handler and called next: the status text was written
C18_Witness ==
    \E e \in DOMAIN Ev :
        /\ Ev[e].ev = "advance" /\ Ev[e].code > 399 /\ Ev[e].written > 0
        /\ errorHandlers[Ev[e].code] # Nil
        /\ e + 1 \in DOMAIN Ev
        /\ Ev[e + 1].ev = "fallback" /\ Ev[e + 1].id = Ev[e].code

\* The route handlers invoked so far, in the order of their invocation
Invoked ==
    LET at == SelectSeq([e \in DOMAIN Ev |-> e], LAMBDA e : IsInvoke(e, "route"))
    IN  [k \in DOMAIN at |-> Ev[at[k]].id]

\* The handler invoked at e1 called next twice, the second time after the
\* handler it had advanced to has returned
AdvancedAgain(e1) ==
    \E a1, e2, r2, a2 \in DOMAIN Ev :
        /\ e1 < a1 /\ a1 < e2 /\ e2 < r2 /\ r2 < a2
        /\ Ev[a1].ev = "advance" /\ Ev[a1].by = e1
        /\ e2 \in RouteInvokes
        /\ Ev[r2].ev = "return" /\ Ev[r2].by = e2
        /\ Ev[a2].ev = "advance" /\ Ev[a2].by = e1

\* C21: within one request the handlers invoked are the first entries of
\* the match list, each invoked once and in its order, whatever calls of
\* next the handlers make, and the entries that remain come after them
C21_InvokedPrefix ==
    \E inv \in {Invoked} :
        /\ Len(inv) <= Len(req.matched)
        /\ inv = SubSeq(req.matched, 1, Len(inv))
        /\ \E j \in Len(inv)..Len(req.matched) :
              req.matches = SubSeq(req.matched, j + 1, Len(req.matched))

\* The first handler called next again after the second one had returned,
\* and the third matched route was invoked
C21_Witness ==
    /\ Len(Invoked) = 3
    /\ \E e1 \in RouteInvokes : Ordinal(e1) = 1 /\ AdvancedAgain(e1)

\* C22: after any sequence of Mount calls no table is its own child or
\* descendant, and no call of Flush runs for ever
C22_MountAcyclic ==
    /\ Acyclic(tables)
    /\ lastOp.status # "overflow"

\* On an acyclic tree every call of Flush returns or panics
C22_MountAcyclic_FlushEnds ==
    Acyclic(tables) /\ Configuring =>
        \A t \in TableIds : Flush(CurrentHeap, t, 1).status # "overflow"

(***************************************************************************)
(* SpecEmitter: the calls of the owner on one EventEmitter.                *)
(***************************************************************************)
MaxListeners == 3

Emitting == emOp.status = "ok"

HeldCount == Len(emOp.held["e1"]) + Len(emOp.held["e2"]) + Len(emOp.held["e3"])

DoAddListener(event, listener) ==
    /\ Emitting /\ HeldCount < MaxListeners
    /\ em' = AddListener(em, event, listener)
    /\ emOp' = EmOp("AddListener", event, listener, "ok", FALSE, <<>>,
                    [emOp.held EXCEPT ![event] = Append(@, listener)], emOp.held)
    /\ UNCHANGED <<routes, tables, booted, errorHandlers, fault, lastOp, req, conc>>

DoRemoveListener(event, listener) ==
    /\ Emitting
    /\ \E r \in {RemoveListener(em, event, listener)} :
        /\ em' = r.handlers
        /\ emOp' = EmOp("RemoveListener", event, listener, r.status, r.found, <<>>,
                        [emOp.held EXCEPT ![event] = Without(@, listener)], emOp.held)
    /\ UNCHANGED <<routes, tables, booted, errorHandlers, fault, lastOp, req, conc>>

DoEmit(event) ==
    /\ Emitting
    /\ emOp' = EmOp("Emit", event, "", "ok", FALSE, Emit(em, event),
                    emOp.held, emOp.held)
    /\ UNCHANGED <<routes, tables, booted, errorHandlers, fault, lastOp, req, conc, em>>

NextEmitter ==
    \/ \E e \in EventNames, l \in Listeners : DoAddListener(e, l)
    \/ \E e \in EventNames, l \in Listeners : DoRemoveListener(e, l)
    \/ \E e \in EventNames : DoEmit(e)

SpecEmitter == Init /\ [][NextEmitter]_vars

InOf(ls, l) == \E i \in DOMAIN ls : ls[i] = l

\* C23: after any sequence of AddListener and RemoveListener calls the
\* listeners held for an event are those added and not yet removed, in the
\* order they were added; RemoveListener of a registered listener returns
\* true and never fails; Emit calls the held listeners in order until one
\* returns false
C23_ListenersHeld ==
    /\ emOp.status = "ok"
    /\ \A e \in EventNames : Items(em[e]) = emOp.held[e]
    /\ (emOp.op = "RemoveListener" /\ InOf(emOp.prev[emOp.event], emOp.listener))
          => emOp.found
    /\ emOp.op = "Emit" => emOp.called = EmitFrom(emOp.held[emOp.event], 1)

\* The emitter holds what was added and not removed
Agree == \A e \in EventNames : Items(em[e]) = emOp.held[e]

\* From a state where the emitter holds what was added and not removed, it
\* still does after AddListener for an event that holds no listener, and
\* after RemoveListener while the map has two entries at most, which returns
\* true for a registered listener
C23_ListenersHeld_FirstOnly ==
    [][/\ (Agree /\ emOp'.op = "AddListener" /\ emOp.held[emOp'.event] = <<>>)
            => Agree'
       /\ (Agree /\ emOp'.op = "RemoveListener" /\ MapLen(em) <= 2) =>
            /\ Agree'
            /\ emOp'.status = "ok"
            /\ emOp'.found = InOf(emOp.held[emOp'.event], emOp'.listener)
       /\ (Agree /\ emOp'.op = "Emit") =>
            emOp'.called = EmitFrom(emOp.held[emOp'.event], 1)]_vars

====
